---- MODULE Spec2Model ----
(***************************************************************************)
(* A model of the errlog crate (src/src/lib.rs, src/src/error.rs).         *)
(*                                                                         *)
(* Text (raw paths, messages, file contents) is a sequence of one-         *)
(* character strings, so that parsing, formatting and concatenation are    *)
(* computed and not assumed.  The file system is a set of directories and  *)
(* a map from file paths to contents, both keyed by absolute, resolved     *)
(* paths (sequences of component names).                                   *)
(***************************************************************************)
EXTENDS Integers, Sequences, FiniteSets, TLC

VARIABLES
    fs,        \* the file system: [dirs, files, ro]
    clock,     \* SystemTime::now(), seconds since UNIX_EPOCH
    appends,   \* number of successful append_log writes so far
    last,      \* the last completed call: operation, arguments, result, fs before
    text,      \* the raw path string the caller passes
    pc,        \* concurrent runs: each caller's position inside errlog
    loc,       \* concurrent runs: each caller's local variables
    overlap    \* concurrent runs: TRUE once one call began while another ran

vars == <<fs, clock, appends, last, text, pc, loc, overlap>>

----------------------------------------------------------------------------
(* Bounds of the model.                                                    *)

MaxTextLen == 6      \* longest raw string given to the validator
MaxAppends == 3      \* successful appends in one sequential behaviour
MaxTick == 1         \* how far the clock may advance in total
ClockStart == 1762286400   \* a wall-clock reading (seconds since the epoch)

----------------------------------------------------------------------------
(* Text helpers.                                                           *)

Chars == {"/", ".", "l", "o", "g", "L"}

Texts == UNION {[1..n -> Chars] : n \in 0..MaxTextLen}

LOGEXT == <<"l", "o", "g">>

NL == <<"\n">>

\* std::fmt::Display for u64: decimal digits, no padding.
RECURSIVE FormatU64(_)
FormatU64(n) ==
    LET d == <<"0", "1", "2", "3", "4", "5", "6", "7", "8", "9">>[(n % 10) + 1]
    IN  IF n < 10 THEN <<d>> ELSE FormatU64(n \div 10) \o <<d>>

None == [some |-> FALSE, val |-> <<>>]

Some(v) == [some |-> TRUE, val |-> v]

----------------------------------------------------------------------------
(* std::path on Unix, as far as errlog uses it: PathBuf::from keeps the    *)
(* raw string; components are parsed from it on demand.                    *)

HasRoot(s) == Len(s) > 0 /\ s[1] = "/"

\* A leading "." (followed by a separator or the end) is the CurDir component.
IncludeCurDir(s) ==
    /\ ~HasRoot(s)
    /\ Len(s) >= 1
    /\ s[1] = "."
    /\ (Len(s) = 1 \/ s[2] = "/")

LenBeforeBody(s) == IF HasRoot(s) \/ IncludeCurDir(s) THEN 1 ELSE 0

\* Index of the last separator of s after position start, 0 when there is none.
LastSlash(s, start) ==
    LET idx == {i \in (start + 1)..Len(s) : s[i] = "/"}
    IN  IF idx = {} THEN 0 ELSE CHOOSE i \in idx : \A j \in idx : j <= i

\* Components::parse_next_component_back: the text after the last separator
\* of the body, and how many characters it and its separator take.
BackComp(s) ==
    LET Split(b, i) ==
            IF i = 0
            THEN [comp |-> SubSeq(s, b + 1, Len(s)), size |-> Len(s) - b]
            ELSE [comp |-> SubSeq(s, i + 1, Len(s)), size |-> Len(s) - i + 1]
        From(b) == Split(b, LastSlash(s, b))
    IN  From(LenBeforeBody(s))

\* Empty segments and non-leading "." segments are not components.
IsComponent(comp) == comp # <<>> /\ comp # <<".">>

\* Components::trim_right: drop trailing segments that are not components.
RECURSIVE TrimRight(_)
TrimRight(s) ==
    LET Drop(c) ==
            IF ~IsComponent(c.comp) THEN TrimRight(SubSeq(s, 1, Len(s) - c.size))
            ELSE s
    IN  IF Len(s) > LenBeforeBody(s) THEN Drop(BackComp(s)) ELSE s

\* Components::next_back on a fresh iterator: the last component's kind and
\* name, and the raw text left before it.
NextBack(s) ==
    LET Body(t, c) ==
            [kind |-> IF c.comp = <<".", ".">> THEN "ParentDir" ELSE "Normal",
             name |-> c.comp,
             rest |-> SubSeq(t, 1, Len(t) - c.size)]
        Start(t, before) ==
            IF Len(t) > before THEN Body(t, BackComp(t))
            ELSE IF before = 1 /\ t[1] = "."
            THEN [kind |-> "CurDir", name |-> <<".">>, rest |-> <<>>]
            ELSE IF before = 1
            THEN [kind |-> "RootDir", name |-> <<"/">>, rest |-> <<>>]
            ELSE [kind |-> "None", name |-> <<>>, rest |-> <<>>]
        Trimmed(t) == Start(t, LenBeforeBody(t))
    IN  Trimmed(TrimRight(s))

\* Path::file_name
FileName(s) ==
    LET Last(c) == IF c.kind = "Normal" THEN Some(c.name) ELSE None
    IN  Last(NextBack(s))

\* Index of the last "." of a file name, 0 when there is none.
LastDot(name) ==
    LET idx == {i \in 1..Len(name) : name[i] = "."}
    IN  IF idx = {} THEN 0 ELSE CHOOSE i \in idx : \A j \in idx : j <= i

\* Path::extension: the part of the file name after its last ".", unless the
\* name has no "." or nothing before its last ".".
Extension(s) ==
    LET SplitAt(name, i) ==
            IF i = 0 THEN None
            ELSE IF i = 1 THEN None
            ELSE Some(SubSeq(name, i + 1, Len(name)))
        Of(f) == IF ~f.some THEN None ELSE SplitAt(f.val, LastDot(f.val))
    IN  Of(FileName(s))

\* Path::parent / PathBuf::pop: the raw text up to the end of the component
\* before the last one; unchanged when there is no last component to remove.
Pop(s) ==
    LET Parent(c) ==
            IF c.kind \in {"Normal", "CurDir", "ParentDir"}
            THEN TrimRight(c.rest)
            ELSE s
    IN  Parent(NextBack(s))

----------------------------------------------------------------------------
(* create_path_from_str                                                    *)

\* Result<T>: Ok(value), or Err of one of the two error types the crate
\* returns boxed: error::BadExtensionError and std::io::Error (with its kind).
Ok(v) == [tag |-> "Ok", kind |-> "", val |-> v]

Unit == <<>>

BadExtensionError == [tag |-> "InvalidExtension", kind |-> "", val |-> <<>>]

IoError(kind) == [tag |-> "IoError", kind |-> kind, val |-> <<>>]

\* Variant: any extension is accepted.
create_path_from_str_anyExt(t) ==
    LET Check(ext) == IF ext.some THEN Ok(t) ELSE BadExtensionError
    IN  Check(Extension(t))

create_path_from_str(t) ==
    LET Check(ext) ==
            IF ext.some
            THEN IF ext.val # LOGEXT THEN BadExtensionError ELSE Ok(t)
            ELSE BadExtensionError
    IN  Check(Extension(t))

----------------------------------------------------------------------------
(* The file system, as the calls of std::fs that errlog makes see it.      *)

Root == <<>>

\* The process's working directory, /w.
Cwd == <<(<<"w">>)>>

\* The segments of a raw path between separators, empty ones dropped.
RECURSIVE Segments(_)
Segments(s) ==
    LET Cut(i) ==
            (IF i = 1 THEN <<>> ELSE <<SubSeq(s, 1, i - 1)>>)
            \o Segments(SubSeq(s, i + 1, Len(s)))
        First(idx) ==
            IF idx = {} THEN <<s>>
            ELSE Cut(CHOOSE k \in idx : \A j \in idx : k <= j)
    IN  IF s = <<>> THEN <<>> ELSE First({i \in 1..Len(s) : s[i] = "/"})

IsFile(f, node) == node \in DOMAIN f.files

Exists(f, node) == node \in f.dirs \/ IsFile(f, node)

\* Path resolution: every step is taken from an existing directory; the node
\* the last segment names may itself be missing.
RECURSIVE Walk(_, _, _, _)
Walk(f, cur, segs, i) ==
    IF i > Len(segs) THEN [err |-> "", node |-> cur]
    ELSE IF cur \notin f.dirs
    THEN [err |-> IF IsFile(f, cur) THEN "NotADirectory" ELSE "NotFound", node |-> cur]
    ELSE LET Into(g) ==
                 IF g = <<".">> THEN cur
                 ELSE IF g = <<".", ".">>
                 THEN (IF cur = Root THEN Root ELSE SubSeq(cur, 1, Len(cur) - 1))
                 ELSE Append(cur, g)
         IN  Walk(f, Into(segs[i]), segs, i + 1)

\* The node a raw path names: err is set when the path is empty or a step
\* before the last fails; dirOnly when the path can only name a directory.
Resolve(f, s) ==
    LET Found(w, segs) ==
            [err |-> w.err, node |-> w.node,
             dirOnly |-> (s[Len(s)] = "/"
                          \/ (Len(segs) > 0
                              /\ segs[Len(segs)] \in {<<".">>, <<".", ".">>}))]
        From(segs) == Found(Walk(f, IF s[1] = "/" THEN Root ELSE Cwd, segs, 1), segs)
    IN  IF s = <<>> THEN [err |-> "NotFound", node |-> Root, dirOnly |-> FALSE]
        ELSE From(Segments(s))

\* Path::is_dir: fs::metadata succeeds and reports a directory.
is_dir(f, s) ==
    LET Stat(r) == r.err = "" /\ r.node \in f.dirs
    IN  Stat(Resolve(f, s))

\* Variant: fs::create_dir_all, which also creates the missing ancestors.
create_dir_all(f, s) ==
    LET Names(segs) == SelectSeq(segs, LAMBDA g : g \notin {<<".">>, <<".", ".">>})
        Make(full) ==
            [res |-> Ok(Unit),
             fs |-> [f EXCEPT !.dirs = @ \cup {SubSeq(full, 1, k) : k \in 0..Len(full)}]]
    IN  IF s = <<>> THEN [res |-> IoError("NotFound"), fs |-> f]
        ELSE Make((IF s[1] = "/" THEN Root ELSE Cwd) \o Names(Segments(s)))

\* fs::create_dir: one level only, the parent must exist.
create_dir(f, s) ==
    LET Mkdir(r) ==
            IF r.err # "" THEN [res |-> IoError(r.err), fs |-> f]
            ELSE IF Exists(f, r.node) THEN [res |-> IoError("AlreadyExists"), fs |-> f]
            ELSE [res |-> Ok(Unit), fs |-> [f EXCEPT !.dirs = @ \cup {r.node}]]
    IN  Mkdir(Resolve(f, s))

\* Path::try_exists: NotFound is Ok(false), any other error is returned.
try_exists(f, s) ==
    LET Stat(r) ==
            IF r.err = "NotFound" THEN Ok(FALSE)
            ELSE IF r.err # "" THEN IoError(r.err)
            ELSE IF ~Exists(f, r.node) THEN Ok(FALSE)
            ELSE IF r.dirOnly /\ IsFile(f, r.node) THEN IoError("NotADirectory")
            ELSE Ok(TRUE)
    IN  Stat(Resolve(f, s))

\* fs::File::create: opening for writing with create and truncate, as
\* check_or_make_log does and as fs::write does before it writes.
\* The result carries the node that was opened.
File_create(f, s) ==
    LET Fail(kind, r) == [res |-> IoError(kind), fs |-> f, node |-> r.node]
        Open(r) ==
            IF r.err # "" THEN Fail(r.err, r)
            ELSE IF r.node \in f.dirs THEN Fail("IsADirectory", r)
            ELSE IF r.dirOnly
            THEN Fail(IF IsFile(f, r.node) THEN "NotADirectory" ELSE "IsADirectory", r)
            ELSE IF r.node \in f.ro THEN Fail("PermissionDenied", r)
            ELSE [res |-> Ok(Unit), node |-> r.node,
                  fs |-> [f EXCEPT !.files = (r.node :> <<>>) @@ @]]
    IN  Open(Resolve(f, s))

\* Write::write_all on a file opened at offset 0: data replaces the first
\* Len(data) characters of whatever the file holds by then.
write_all(f, node, data) ==
    [f EXCEPT !.files[node] = data \o SubSeq(@, Len(data) + 1, Len(@))]

\* fs::write: File::create(path)?.write_all(contents)
fs_write(f, s, data) ==
    LET Write(o) ==
            IF o.res.tag # "Ok" THEN [res |-> o.res, fs |-> o.fs]
            ELSE [res |-> Ok(Unit), fs |-> write_all(o.fs, o.node, data)]
    IN  Write(File_create(f, s))

\* Variant: a missing file reads as empty text.
read_to_string_missingIsEmpty(f, s) ==
    LET Read(r) ==
            IF r.err # "" THEN IoError(r.err)
            ELSE IF r.node \in f.dirs THEN IoError("IsADirectory")
            ELSE IF ~IsFile(f, r.node) THEN Ok(<<>>)
            ELSE Ok(f.files[r.node])
    IN  Read(Resolve(f, s))

\* fs::read_to_string
read_to_string(f, s) ==
    LET Read(r) ==
            IF r.err # "" THEN IoError(r.err)
            ELSE IF r.node \in f.dirs THEN IoError("IsADirectory")
            ELSE IF ~IsFile(f, r.node) THEN IoError("NotFound")
            ELSE IF r.dirOnly THEN IoError("NotADirectory")
            ELSE Ok(f.files[r.node])
    IN  Read(Resolve(f, s))

----------------------------------------------------------------------------
(* get_date                                                                *)

DAY_MONTH == <<31, 59, 90, 120, 151, 181, 212, 243, 273, 304, 334>>

SECONDS_IN_DAY == 86400

THREE_YEARS_IN_DAYS == 365 * 3

\* The for loop over DAY_MONTH: the first entry (0-based index i) that
\* remainder_days does not exceed sets month and day; 12 and 31 otherwise.
MonthDay(remainder_days) ==
    LET At(i) == [month |-> i - 1, day |-> remainder_days % DAY_MONTH[i]]
        First(hit) ==
            IF hit = {} THEN [month |-> 12, day |-> 31]
            ELSE At(CHOOSE k \in hit : \A j \in hit : k <= j)
    IN  First({i \in 1..Len(DAY_MONTH) : remainder_days <= DAY_MONTH[i]})

\* The rendered date for a clock reading of date_in_sec seconds (a reading
\* late enough that none of the u64 subtractions and remainders traps).
get_date(date_in_sec) ==
    LET hours == (date_in_sec % (60 * 60 * 24)) \div (60 * 60)
        minutes == (date_in_sec % (60 * 60)) \div 60
        seconds == date_in_sec % 60
        Format(md, year) ==
            FormatU64(md.month) \o <<"/">> \o FormatU64(md.day) \o <<"/">>
            \o FormatU64(year) \o <<" ", "-", " ">>
            \o FormatU64(hours) \o <<":">> \o FormatU64(minutes) \o <<":">>
            \o FormatU64(seconds)
        Years(num_days, cycles) ==
            Format(MonthDay((num_days % (cycles * (THREE_YEARS_IN_DAYS + 366))) % 365),
                   (cycles * 4)
                   + (((num_days - (365 + 366)) % (THREE_YEARS_IN_DAYS + 366)) \div 365)
                   + 1972)
        Days(num_days) ==
            Years(num_days, (num_days - (365 + 366)) \div (THREE_YEARS_IN_DAYS + 366))
    IN  Days(date_in_sec \div SECONDS_IN_DAY)

----------------------------------------------------------------------------
(* The crate's functions, each from a file system to a result and the file *)
(* system it leaves.                                                       *)

\* Variant: the directory is checked for and never created.
check_or_make_directory_noCreate(f, path) ==
    [res |-> Ok(Unit), fs |-> f]

check_or_make_directory(f, path) ==
    LET Ensure(dir_path) ==
            IF is_dir(f, dir_path) THEN [res |-> Ok(Unit), fs |-> f]
            ELSE create_dir(f, dir_path)
    IN  Ensure(Pop(path))

\* Variant: the file is created without asking whether it exists.
check_or_make_log_alwaysCreate(f, path) ==
    LET Created(o) == [res |-> o.res, fs |-> o.fs]
    IN  Created(File_create(f, path))

check_or_make_log(f, path) ==
    LET Created(o) == [res |-> o.res, fs |-> o.fs]
        Ensure(e) ==
            IF e.tag # "Ok" THEN [res |-> e, fs |-> f]
            ELSE IF e.val THEN [res |-> Ok(Unit), fs |-> f]
            ELSE Created(File_create(f, path))
    IN  Ensure(try_exists(f, path))

\* Variant: the separating newline is skipped after a newline.
FormatEntry_joinOnNeed(current_log, date_time, error) ==
    (IF current_log # <<>> /\ current_log[Len(current_log)] = "\n"
     THEN current_log ELSE current_log \o NL)
    \o date_time \o <<" ", "-", " ">> \o error \o NL

\* format!("{}\n{} - {}\n", current_log, date_time, error)
FormatEntry(current_log, date_time, error) ==
    current_log \o NL \o date_time \o <<" ", "-", " ">> \o error \o NL

\* Variant: the new entry goes in front of the current log.
append_log_prepend(f, file_path, error, now) ==
    LET Update(date_time, current_log) ==
            IF current_log.tag # "Ok" THEN [res |-> current_log, fs |-> f]
            ELSE fs_write(f, file_path,
                          NL \o date_time \o <<" ", "-", " ">> \o error \o NL
                          \o current_log.val)
    IN  Update(get_date(now), read_to_string(f, file_path))

append_log(f, file_path, error, now) ==
    LET Update(date_time, current_log) ==
            IF current_log.tag # "Ok" THEN [res |-> current_log, fs |-> f]
            ELSE fs_write(f, file_path, FormatEntry(current_log.val, date_time, error))
    IN  Update(get_date(now), read_to_string(f, file_path))

\* Variant: the directory is ensured before the path is validated.
errlog_dirFirst(f, raw, error, now) ==
    LET Log(path, l) ==
            IF l.res.tag # "Ok" THEN l ELSE append_log(l.fs, path, error, now)
        Dir(path, d) ==
            IF d.res.tag # "Ok" THEN d
            ELSE IF path.tag # "Ok" THEN [res |-> path, fs |-> d.fs]
            ELSE Log(path.val, check_or_make_log(d.fs, path.val))
    IN  Dir(create_path_from_str(raw), check_or_make_directory(f, raw))

errlog(f, raw, error, now) ==
    LET Log(path, l) ==
            IF l.res.tag # "Ok" THEN l ELSE append_log(l.fs, path, error, now)
        Dir(path, d) ==
            IF d.res.tag # "Ok" THEN d ELSE Log(path, check_or_make_log(d.fs, path))
        Checked(path) ==
            IF path.tag # "Ok" THEN [res |-> path, fs |-> f]
            ELSE Dir(path.val, check_or_make_directory(f, path.val))
    IN  Checked(create_path_from_str(raw))

----------------------------------------------------------------------------
(* Inputs: raw paths, messages and the file systems a run may start from.  *)

pDirFile == <<".", "/", "a", "/", "f", ".", "l", "o", "g">>          \* ./a/f.log
pDeep == <<".", "/", "a", "/", "b", "/", "f", ".", "l", "o", "g">>   \* ./a/b/f.log
pBare == <<"f", ".", "l", "o", "g">>                                 \* f.log
pDotFile == <<".", "/", "f", ".", "l", "o", "g">>                    \* ./f.log
pAbs == <<"/", "w", "/", "a", "/", "f", ".", "l", "o", "g">>         \* /w/a/f.log
pNoExt == <<".", "/", "a", "/", "f">>                                \* ./a/f
pOtherExt == <<".", "/", "a", "/", "f", ".", "L", "O", "G">>         \* ./a/f.LOG
pHidden == <<".", "/", "a", "/", ".", "l", "o", "g">>                \* ./a/.log
pSlash == <<".", "/", "a", "/", "f", ".", "l", "o", "g", "/">>       \* ./a/f.log/

RawPaths ==
    {pDirFile, pDeep, pBare, pDotFile, pAbs, pNoExt, pOtherExt, pHidden, pSlash}

err1 == <<"e", "r", "r", "1">>

err2 == <<"e", "r", "r", "2">>

Msgs == {err1, err2}

dirA == Append(Cwd, <<"a">>)

fileAF == Append(dirA, <<"f", ".", "l", "o", "g">>)

NoFiles == [n \in {} |-> <<>>]

\* Only the working directory exists.
FsEmpty == [dirs |-> {Root, Cwd}, files |-> NoFiles, ro |-> {}]

\* ./a/f.log exists and holds "X".
FsLog == [dirs |-> {Root, Cwd, dirA}, files |-> (fileAF :> <<"X">>), ro |-> {}]

\* As FsLog, with the log file not writable.
FsReadOnly == [FsLog EXCEPT !.ro = {fileAF}]

\* ./a exists and is a regular file.
FsBlocked == [dirs |-> {Root, Cwd}, files |-> (dirA :> <<"X">>), ro |-> {}]

\* ./a/f.log exists and is a directory.
FsDirAtLog == [dirs |-> {Root, Cwd, dirA, fileAF}, files |-> NoFiles, ro |-> {}]

InitFS == {FsEmpty, FsLog, FsReadOnly, FsBlocked, FsDirAtLog}

----------------------------------------------------------------------------
(* Sequential use: one call at a time, each running to completion, all on  *)
(* the path the caller logs to.                                            *)

NoCall == [op |-> "none", path |-> <<>>, msg |-> <<>>, res |-> Ok(Unit),
           pre |-> FsEmpty, now |-> 0]

\* A call returns: the file system is as the call left it, and the call is
\* recorded with the file system it started from.
Return(op, msg, out, now) ==
    /\ fs' = out.fs
    /\ last' = [op |-> op, path |-> text, msg |-> msg, res |-> out.res,
                pre |-> fs, now |-> now]
    /\ clock' = now
    /\ appends' = IF op \in {"errlog", "append_log"} /\ out.res.tag = "Ok"
                  THEN appends + 1 ELSE appends

Idle == [p \in {1, 2} |-> "off"]

NoLocals == [p \in {1, 2} |-> <<>>]

Init ==
    /\ fs \in InitFS
    /\ clock = ClockStart
    /\ appends = 0
    /\ last = NoCall
    /\ text \in RawPaths
    /\ pc = Idle
    /\ loc = NoLocals
    /\ overlap = FALSE

\* A call that reads the clock sees a reading no earlier than the last one.
Readings == clock..(ClockStart + MaxTick)

Errlog ==
    /\ appends < MaxAppends
    /\ \E m \in Msgs, now \in Readings :
          Return("errlog", m, errlog(fs, text, m, now), now)
    /\ UNCHANGED <<text, pc, loc, overlap>>

CheckOrMakeDirectory ==
    /\ Return("check_or_make_directory", <<>>,
              check_or_make_directory(fs, text), clock)
    /\ UNCHANGED <<text, pc, loc, overlap>>

CheckOrMakeLog ==
    /\ Return("check_or_make_log", <<>>, check_or_make_log(fs, text), clock)
    /\ UNCHANGED <<text, pc, loc, overlap>>

AppendLog ==
    /\ appends < MaxAppends
    /\ \E m \in Msgs, now \in Readings :
          Return("append_log", m, append_log(fs, text, m, now), now)
    /\ UNCHANGED <<text, pc, loc, overlap>>

Next == Errlog \/ CheckOrMakeDirectory \/ CheckOrMakeLog \/ AppendLog

Spec == Init /\ [][Next]_vars

----------------------------------------------------------------------------
(* Every raw string up to MaxTextLen: the validator alone, and one call of *)
(* errlog.                                                                 *)

InitV ==
    /\ text \in Texts
    /\ fs = FsEmpty
    /\ clock = ClockStart
    /\ appends = 0
    /\ last = NoCall
    /\ pc = Idle
    /\ loc = NoLocals
    /\ overlap = FALSE

Validate ==
    /\ last.op = "none"
    /\ Return("create_path_from_str", <<>>,
              [res |-> create_path_from_str(text), fs |-> fs], clock)
    /\ UNCHANGED <<text, pc, loc, overlap>>

\* One call of errlog on the raw string, from the same starting state.
ErrlogOnce ==
    /\ last.op = "none"
    /\ Return("errlog", err1, errlog(fs, text, err1, clock), clock)
    /\ UNCHANGED <<text, pc, loc, overlap>>

NextV == Validate \/ ErrlogOnce

SpecV == InitV /\ [][NextV]_vars

----------------------------------------------------------------------------
(* Concurrent use: two callers inside errlog on the same path, one system  *)
(* call at a time.  The library takes no lock, so the calls of the two     *)
(* interleave freely.                                                      *)

Procs == {1, 2}

\* The message each caller logs.
MsgOf(p) == IF p = 1 THEN err1 ELSE err2

Locals == [path |-> <<>>, date_time |-> <<>>, current_log |-> <<>>,
           node |-> Root, res |-> Ok(Unit)]

InitC ==
    /\ fs \in InitFS
    /\ clock = ClockStart
    /\ appends = 0
    /\ last = [NoCall EXCEPT !.pre = fs]
    /\ text = pDirFile
    /\ pc = [p \in Procs |-> "start"]
    /\ loc = [p \in Procs |-> Locals]
    /\ overlap = FALSE

Running(p) == pc[p] \notin {"off", "start", "done"}

\* The ? operator: an Err ends the call with that result.
Step(p, res, next) ==
    IF res.tag = "Ok"
    THEN /\ pc' = [pc EXCEPT ![p] = next]
         /\ loc' = loc
    ELSE /\ pc' = [pc EXCEPT ![p] = "done"]
         /\ loc' = [loc EXCEPT ![p].res = res]

\* errlog is entered: create_path_from_str(path)?
Begin(p) ==
    /\ pc[p] = "start"
    /\ LET Checked(path) ==
               IF path.tag = "Ok"
               THEN /\ pc' = [pc EXCEPT ![p] = "is_dir"]
                    /\ loc' = [loc EXCEPT ![p].path = path.val]
               ELSE /\ pc' = [pc EXCEPT ![p] = "done"]
                    /\ loc' = [loc EXCEPT ![p].res = path]
       IN  Checked(create_path_from_str(text))
    /\ overlap' = (overlap \/ \E q \in Procs \ {p} : Running(q))
    /\ UNCHANGED <<fs, clock, appends, last, text>>

\* check_or_make_directory: dir_path.is_dir()
IsDirStep(p) ==
    /\ pc[p] = "is_dir"
    /\ pc' = [pc EXCEPT ![p] = IF is_dir(fs, Pop(loc[p].path))
                                THEN "try_exists" ELSE "create_dir"]
    /\ UNCHANGED <<fs, clock, appends, last, text, loc, overlap>>

\* check_or_make_directory: fs::create_dir(dir_path)?
CreateDirStep(p) ==
    /\ pc[p] = "create_dir"
    /\ LET Made(out) ==
               /\ fs' = out.fs
               /\ Step(p, out.res, "try_exists")
       IN  Made(create_dir(fs, Pop(loc[p].path)))
    /\ UNCHANGED <<clock, appends, last, text, overlap>>

\* check_or_make_log: path.try_exists()?
TryExistsStep(p) ==
    /\ pc[p] = "try_exists"
    /\ LET Seen(e) ==
               Step(p, e, IF e.tag = "Ok" /\ e.val THEN "get_date" ELSE "create")
       IN  Seen(try_exists(fs, loc[p].path))
    /\ UNCHANGED <<fs, clock, appends, last, text, overlap>>

\* check_or_make_log: fs::File::create(path)?
CreateStep(p) ==
    /\ pc[p] = "create"
    /\ LET Made(out) ==
               /\ fs' = out.fs
               /\ Step(p, out.res, "get_date")
       IN  Made(File_create(fs, loc[p].path))
    /\ UNCHANGED <<clock, appends, last, text, overlap>>

\* append_log: let date_time = get_date()?
GetDateStep(p) ==
    /\ pc[p] = "get_date"
    /\ \E now \in Readings :
          /\ clock' = now
          /\ loc' = [loc EXCEPT ![p].date_time = get_date(now)]
    /\ pc' = [pc EXCEPT ![p] = "read"]
    /\ UNCHANGED <<fs, appends, last, text, overlap>>

\* append_log: let current_log = fs::read_to_string(file_path)?
ReadStep(p) ==
    /\ pc[p] = "read"
    /\ LET Got(r) ==
               IF r.tag = "Ok"
               THEN /\ pc' = [pc EXCEPT ![p] = "open"]
                    /\ loc' = [loc EXCEPT ![p].current_log = r.val]
               ELSE /\ pc' = [pc EXCEPT ![p] = "done"]
                    /\ loc' = [loc EXCEPT ![p].res = r]
       IN  Got(read_to_string(fs, loc[p].path))
    /\ UNCHANGED <<fs, clock, appends, last, text, overlap>>

\* append_log: fs::write, its File::create: the file is opened and truncated.
OpenStep(p) ==
    /\ pc[p] = "open"
    /\ LET Opened(out) ==
               /\ fs' = out.fs
               /\ IF out.res.tag = "Ok"
                  THEN /\ pc' = [pc EXCEPT ![p] = "write"]
                       /\ loc' = [loc EXCEPT ![p].node = out.node]
                  ELSE /\ pc' = [pc EXCEPT ![p] = "done"]
                       /\ loc' = [loc EXCEPT ![p].res = out.res]
       IN  Opened(File_create(fs, loc[p].path))
    /\ UNCHANGED <<clock, appends, last, text, overlap>>

\* Variant: only the new entry is written, the text read is dropped.
WriteStep_entryOnly(p) ==
    /\ pc[p] = "write"
    /\ fs' = write_all(fs, loc[p].node, FormatEntry(<<>>, loc[p].date_time, MsgOf(p)))
    /\ pc' = [pc EXCEPT ![p] = "done"]
    /\ appends' = appends + 1
    /\ UNCHANGED <<clock, last, text, loc, overlap>>

\* append_log: fs::write, its write_all of updated_log; errlog returns Ok(()).
WriteStep(p) ==
    /\ pc[p] = "write"
    /\ fs' = write_all(fs, loc[p].node,
                       FormatEntry(loc[p].current_log, loc[p].date_time, MsgOf(p)))
    /\ pc' = [pc EXCEPT ![p] = "done"]
    /\ appends' = appends + 1
    /\ UNCHANGED <<clock, last, text, loc, overlap>>

NextC ==
    \E p \in Procs :
        \/ Begin(p)
        \/ IsDirStep(p)
        \/ CreateDirStep(p)
        \/ TryExistsStep(p)
        \/ CreateStep(p)
        \/ GetDateStep(p)
        \/ ReadStep(p)
        \/ OpenStep(p)
        \/ WriteStep(p)

SpecC == InitC /\ [][NextC]_vars

----------------------------------------------------------------------------
(* Properties.  In SpecV and Spec, `last` is the call that has just        *)
(* returned and last.pre the file system it started from.                  *)

IsPrefix(a, b) == Len(a) <= Len(b) /\ SubSeq(b, 1, Len(a)) = a

Contains(hay, needle) ==
    \E i \in 1..(Len(hay) - Len(needle) + 1) :
        SubSeq(hay, i, i + Len(needle) - 1) = needle

\* The text of one log entry as the specification words it:
\* "\n<timestamp> - <message>\n".
Entry(now, msg) == NL \o get_date(now) \o <<" ", "-", " ">> \o msg \o NL

\* The name of the final component of a raw path, read front to back: the
\* last segment once "." segments are set aside, unless that is "..".
FinalName(s) ==
    LET names == SelectSeq(Segments(s), LAMBDA g : g # <<".">>)
    IN  IF names = <<>> \/ names[Len(names)] = <<".", ".">> THEN <<>>
        ELSE names[Len(names)]

EndsWithDotLog(s) ==
    Len(s) >= 4 /\ SubSeq(s, Len(s) - 3, Len(s)) = <<".", "l", "o", "g">>

\* The path has been accepted by the validator.
Validated(s) == create_path_from_str(s).tag = "Ok"

\* The node the path of the last call named when the call began.
Target == Resolve(last.pre, last.path)

\* The node that path names now that the call has returned.
TargetNow == Resolve(fs, last.path)

\* The node of the parent directory of that path when the call began.
TargetDir == Resolve(last.pre, Pop(last.path))

\* C1: errlog on a raw path whose final component has no extension, or one
\* other than exactly "log", returns the bad-extension error and leaves the
\* file system exactly as it was.
C1_BadExtensionTouchesNothing ==
    (last.op = "errlog"
     /\ (~Extension(last.path).some \/ Extension(last.path).val # LOGEXT))
    => (last.res.tag = "InvalidExtension" /\ fs = last.pre)

\* C1 witness: errlog("./L") (no extension) has returned the error.
C1_Witness ==
    /\ last.op = "errlog"
    /\ last.path = <<".", "/", "L">>
    /\ last.res.tag = "InvalidExtension"

\* C2 as claimed: every string that ends in ".log" is accepted with extension
\* "log", and every string whose final component has no extension or another
\* one is rejected with InvalidExtension.
C2_Original ==
    last.op = "create_path_from_str"
    => /\ EndsWithDotLog(last.path)
          => (last.res.tag = "Ok" /\ Extension(last.res.val).val = LOGEXT)
       /\ (~EndsWithDotLog(FinalName(last.path)))
          => last.res.tag = "InvalidExtension"

\* C2 amended: create_path_from_str accepts a string, returning it unchanged
\* with extension "log", exactly when the name of its final component is a
\* non-empty stem followed by ".log"; every other string, the bare name
\* ".log" included, is rejected with InvalidExtension.
C2_StemDotLog ==
    last.op = "create_path_from_str"
    => IF Len(FinalName(last.path)) > 4 /\ EndsWithDotLog(FinalName(last.path))
       THEN /\ last.res.tag = "Ok"
            /\ last.res.val = last.path
            /\ Extension(last.res.val) = Some(LOGEXT)
       ELSE last.res.tag = "InvalidExtension"

\* C2 witness: "L/.log" has been rejected (and "L.log" would be accepted).
C2_Witness ==
    /\ last.op = "create_path_from_str"
    /\ last.path = <<"L", "/", ".", "l", "o", "g">>
    /\ last.res.tag = "InvalidExtension"
    /\ create_path_from_str(<<"L", ".", "l", "o", "g">>).tag = "Ok"

\* C3: errlog on <P>/<d>/<f>.log where <P> is a directory and <P>/<d> does not
\* exist returns Ok, and afterwards <P>/<d> is a directory and the file holds
\* exactly the one entry "\n<timestamp> - msg\n".
C3_FirstUse ==
    (last.op = "errlog" /\ EndsWithDotLog(last.path) /\ Validated(last.path)
     /\ Pop(last.path) # <<>>
     /\ TargetDir.err = "" /\ ~Exists(last.pre, TargetDir.node))
    => /\ last.res.tag = "Ok"
       /\ TargetDir.node \in fs.dirs
       /\ IsFile(fs, Append(TargetDir.node, FinalName(last.path)))
       /\ fs.files[Append(TargetDir.node, FinalName(last.path))]
             = Entry(last.now, last.msg)
       /\ fs.dirs = last.pre.dirs \cup {TargetDir.node}
       /\ DOMAIN fs.files
             = DOMAIN last.pre.files \cup {Append(TargetDir.node, FinalName(last.path))}

\* C3 witness: errlog("./a/f.log", err1) has returned Ok where only the working
\* directory existed.
C3_Witness ==
    /\ last.op = "errlog"
    /\ last.path = pDirFile
    /\ last.pre = FsEmpty
    /\ last.res.tag = "Ok"
    /\ dirA \in fs.dirs
    /\ fs.files[fileAF] = Entry(last.now, err1)

\* C4: when the parent directory of the path cannot be reached because its
\* own parent is missing, check_or_make_directory fails with an I/O error,
\* errlog returns that same error, and the file system is as it was.
C4_TwoLevelsMissing ==
    (last.op \in {"check_or_make_directory", "errlog"} /\ Validated(last.path)
     /\ Pop(last.path) # <<>> /\ TargetDir.err = "NotFound")
    => /\ last.res.tag = "IoError"
       /\ last.res.kind = "NotFound"
       /\ fs = last.pre

\* C4 witness: errlog("./a/b/f.log") has failed where neither ./a nor ./a/b
\* existed.
C4_Witness ==
    /\ last.op = "errlog"
    /\ last.path = pDeep
    /\ last.pre = FsEmpty
    /\ last.res.tag = "IoError"

EntryOf(p) == NL \o loc[p].date_time \o <<" ", "-", " ">> \o MsgOf(p) \o NL

BothOk == \A p \in Procs : pc[p] = "done" /\ loc[p].res.tag = "Ok"

\* C6: when the two calls did not overlap and both returned Ok, the file
\* holds the entries of both (an entry can only be lost when they overlap).
C6_NoOverlapKeepsBoth ==
    (BothOk /\ ~overlap)
    => \A p \in Procs : Contains(fs.files[fileAF], EntryOf(p))

\* C6 witness: the lost update.  The log file existed, the two calls
\* overlapped, both returned Ok, and the file holds the entry of one only.
C6_LostUpdate ==
    /\ BothOk
    /\ overlap
    /\ last.pre = FsLog
    /\ \E p \in Procs :
          /\ Contains(fs.files[fileAF], EntryOf(p))
          /\ \A q \in Procs \ {p} : ~Contains(fs.files[fileAF], EntryOf(q))

\* C7: a successful append_log on a file holding C leaves it holding exactly
\* C + "\n" + timestamp + " - " + message + "\n", whatever C ends with.
C7_JoinRule ==
    (last.op = "append_log" /\ last.res.tag = "Ok")
    => /\ IsFile(last.pre, Target.node)
       /\ fs.files[Target.node]
            = last.pre.files[Target.node] \o NL \o get_date(last.now)
              \o <<" ", "-", " ">> \o last.msg \o NL

\* C7 witness: from "X", append_log(err1) then append_log(err2) has left
\* "X\n<ts1> - err1\n\n<ts2> - err2\n", a blank line between the entries.
C7_Witness ==
    /\ last.op = "append_log"
    /\ last.res.tag = "Ok"
    /\ \E t \in ClockStart..last.now :
          /\ last.pre.files[Target.node]
               = <<"X">> \o NL \o get_date(t) \o <<" ", "-", " ">> \o err1 \o NL
          /\ fs.files[Target.node]
               = <<"X">> \o NL \o get_date(t) \o <<" ", "-", " ">> \o err1 \o NL
                 \o NL \o get_date(last.now) \o <<" ", "-", " ">> \o err2 \o NL

\* C8: append_log on a path at which nothing exists returns an I/O error and
\* changes nothing, so the file is still absent; and whenever a call leaves
\* a file that was not there before, the call ran check_or_make_log.
C8_AppendNeverCreates ==
    /\ (last.op = "append_log" /\ (Target.err # "" \/ ~Exists(last.pre, Target.node)))
       => (last.res.tag = "IoError" /\ fs = last.pre)
    /\ (last.op # "none" /\ DOMAIN fs.files # DOMAIN last.pre.files)
       => last.op \in {"check_or_make_log", "errlog"}

\* C8 witness: append_log("./a/f.log") has failed where ./a exists and the
\* file does not.
C8_Witness ==
    /\ last.op = "append_log"
    /\ Validated(last.path)
    /\ Target.err = ""
    /\ ~Exists(last.pre, Target.node)
    /\ last.res.tag = "IoError"
    /\ ~Exists(fs, Target.node)

\* C9 as claimed: for every validated path whose parent directory exists as
\* a directory, check_or_make_directory returns Ok and changes nothing.
C9_ExistingParentIsNoOp ==
    (last.op = "check_or_make_directory" /\ Validated(last.path)
     /\ Target.err = "")
    => (last.res.tag = "Ok" /\ fs = last.pre)

\* C10: check_or_make_log on a missing path whose parent exists returns Ok
\* and leaves an empty file there; on a path at which a file exists it
\* returns Ok and changes nothing, so the content is what it was.
C10_EnsureFileIdempotent ==
    last.op = "check_or_make_log"
    => /\ (Target.err = "" /\ ~Target.dirOnly /\ ~Exists(last.pre, Target.node))
          => /\ last.res.tag = "Ok"
             /\ fs = [last.pre EXCEPT !.files = (Target.node :> <<>>) @@ @]
       /\ (Target.err = "" /\ IsFile(last.pre, Target.node) /\ ~Target.dirOnly)
          => /\ last.res.tag = "Ok"
             /\ fs = last.pre

\* C10 witness: the second call, on the empty file an earlier call created,
\* has returned Ok with the content still empty.
C10_Witness ==
    /\ last.op = "check_or_make_log"
    /\ last.res.tag = "Ok"
    /\ IsFile(last.pre, Target.node)
    /\ last.pre.files[Target.node] = <<>>
    /\ fs.files[Target.node] = <<>>

====
